---------------------------- MODULE Spec2Model ----------------------------
(***************************************************************************)
(* graphite/nn/models/e3nn_nequip.py: the tensor-product path check        *)
(* tp_path_exists, the construction of E3NN_NequIP (__init__) and its      *)
(* forward pass.                                                           *)
(*                                                                         *)
(* An irrep label is a pair <<l, p>> (degree l >= 0, parity p in {1,-1});  *)
(* an Irreps value is a sequence of entries <<mul, l, p>>.                 *)
(***************************************************************************)
EXTENDS Integers, Sequences, FiniteSets

(***************************************************************************)
(* Bounds of the input sets.                                               *)
(***************************************************************************)
MaxL == 1
MaxMul == 2
MaxLen == 2
MaxConvs == 3

VARIABLES
    irreps_in, irreps_hidden, irreps_out, irreps_node, irreps_edge, num_convs,
    pc, error, node_embedding, irreps, interactions, out,
    fpc, ferror, data_has_z, z, h_atm, z_passed,
    tp_pc, tp_in1, tp_in2, tp_ir, tp_res, tp_res_swapped

cvars == <<irreps_in, irreps_hidden, irreps_out, irreps_node, irreps_edge, num_convs>>
bvars == <<pc, error, node_embedding, irreps, interactions, out>>
fvars == <<fpc, ferror, data_has_z, z, h_atm, z_passed>>
tvars == <<tp_pc, tp_in1, tp_in2, tp_ir, tp_res, tp_res_swapped>>
vars == <<cvars, bvars, fvars, tvars>>

---------------------------------------------------------------------------
(* e3nn.o3 value operations used by the source *)

Abs(x) == IF x < 0 THEN -x ELSE x

Parities == {1, -1}

\* ir1 * ir2 (o3.Irrep.__mul__): the labels <<l, p1*p2>> for l from
\* |l1-l2| to l1+l2, in increasing order
IrrepMul(ir1, ir2) ==
    LET lmin == Abs(ir1[1] - ir2[1])
        lmax == ir1[1] + ir2[1]
    IN  [n \in 1..(lmax - lmin + 1) |-> <<lmin + n - 1, ir1[2] * ir2[2]>>]

\* ir in (ir1 * ir2): membership in the generated sequence
InProduct(ir, ir1, ir2) ==
    LET prod == IrrepMul(ir1, ir2)
    IN  \E n \in DOMAIN prod : prod[n] = ir

\* o3.Irreps.simplify: entries with the same label that are adjacent are
\* merged (multiplicities added), entries of multiplicity 0 are dropped
RECURSIVE SimplifyFrom(_, _, _)
SimplifyFrom(s, n, acc) ==
    IF n > Len(s) THEN acc
    ELSE LET e == s[n]
             k == Len(acc)
         IN  IF k > 0 /\ acc[k][2] = e[2] /\ acc[k][3] = e[3]
             THEN SimplifyFrom(s, n + 1,
                      [acc EXCEPT ![k] = <<acc[k][1] + e[1], e[2], e[3]>>])
             ELSE IF e[1] > 0
                  THEN SimplifyFrom(s, n + 1, Append(acc, e))
                  ELSE SimplifyFrom(s, n + 1, acc)

Simplify(s) == SimplifyFrom(s, 1, <<>>)

\* o3.Irreps.dim: sum of mul * (2l + 1)
RECURSIVE Dim(_)
Dim(s) == IF s = <<>> THEN 0 ELSE s[1][1] * (2 * s[1][2] + 1) + Dim(Tail(s))

---------------------------------------------------------------------------
(* tp_path_exists *)

\* lines 10-19: both arguments are simplified; the loops return True at the
\* first pair of components whose product holds ir_out, and False is
\* returned when no pair does
tp_path_exists_first_pair_only(irreps_in1, irreps_in2, ir_out) ==
    LET s1 == Simplify(irreps_in1)
        s2 == Simplify(irreps_in2)
    IN  /\ s1 # <<>>
        /\ s2 # <<>>
        /\ InProduct(ir_out, <<s1[1][2], s1[1][3]>>, <<s2[1][2], s2[1][3]>>)

tp_path_exists_first_twice(irreps_in1, irreps_in2, ir_out) ==
    LET s1 == Simplify(irreps_in1)
        s2 == Simplify(irreps_in2)
    IN  \E i \in DOMAIN s1 : \E j \in DOMAIN s2 :
            InProduct(ir_out, <<s1[i][2], s1[i][3]>>, <<s1[i][2], s1[i][3]>>)

tp_path_exists(irreps_in1, irreps_in2, ir_out) ==
    LET s1 == Simplify(irreps_in1)
        s2 == Simplify(irreps_in2)
    IN  \E i \in DOMAIN s1 : \E j \in DOMAIN s2 :
            InProduct(ir_out, <<s1[i][2], s1[i][3]>>, <<s2[j][2], s2[j][3]>>)

---------------------------------------------------------------------------
(* E3NN_NequIP.__init__ *)

\* line 81: the degree-0 components of irreps_hidden with a path from
\* (irreps, irreps_edge), with their multiplicities, in order
scalars_no_path_check(cur, hidden, edge) ==
    SelectSeq(hidden, LAMBDA e : e[2] = 0)

irreps_scalars(cur, hidden, edge) ==
    SelectSeq(hidden, LAMBDA e :
        e[2] = 0 /\ tp_path_exists(cur, edge, <<e[2], e[3]>>))

\* line 82: the degree>0 components of irreps_hidden with such a path
irreps_gated(cur, hidden, edge) ==
    SelectSeq(hidden, LAMBDA e :
        e[2] > 0 /\ tp_path_exists(cur, edge, <<e[2], e[3]>>))

\* lines 84-92: the label of the gate scalars; "ValueError" stands for the
\* raise of line 90, "None" for line 92
gate_ir_odd_first(node, edge, gated) ==
    IF Dim(gated) > 0
    THEN IF tp_path_exists(node, edge, <<0, -1>>) THEN <<0, -1>>
         ELSE IF tp_path_exists(node, edge, <<0, 1>>) THEN <<0, 1>>
         ELSE "ValueError"
    ELSE "None"

gate_ir_no_raise(node, edge, gated) ==
    IF Dim(gated) > 0
    THEN IF tp_path_exists(node, edge, <<0, 1>>) THEN <<0, 1>> ELSE <<0, -1>>
    ELSE "None"

gate_ir(node, edge, gated) ==
    IF Dim(gated) > 0
    THEN IF tp_path_exists(node, edge, <<0, 1>>) THEN <<0, 1>>
         ELSE IF tp_path_exists(node, edge, <<0, -1>>) THEN <<0, -1>>
         ELSE "ValueError"
    ELSE "None"

\* line 93: one gate scalar of label ir per gated component, simplified
irreps_gates(gated, ir) ==
    Simplify([n \in DOMAIN gated |-> <<gated[n][1], ir[1], ir[2]>>])

\* lines 95-99, e3nn.nn.Gate, by its declared contract: the representation
\* the gate requires is the concatenation (scalars, gates, gated), the one it
\* produces the concatenation (scalars, gated)
Gate(scalars, gates, gated) ==
    [irreps_scalars |-> scalars,
     irreps_gates   |-> gates,
     irreps_gated   |-> gated,
     irreps_in      |-> scalars \o gates \o gated,
     irreps_out     |-> scalars \o gated]

\* lines 101-108 and 112-119, E3NN_Interaction: the constructor keeps the
\* representations it is given
E3NN_Interaction(in, node, edge, o) ==
    [irreps_in |-> in, irreps_node |-> node, irreps_edge |-> edge, irreps_out |-> o]

\* line 110, Compose(conv, gate)
Compose(first, second) ==
    [first |-> first, second |-> second,
     irreps_in |-> first.irreps_in, irreps_out |-> second.irreps_out]

\* line 109: the representation handed to the next interaction
next_irreps_gate_in(gate) == gate.irreps_in

next_irreps(gate) == gate.irreps_out

NoModule == [irreps_in |-> <<>>, irreps_node |-> <<>>, irreps_edge |-> <<>>, irreps_out |-> <<>>]

\* lines 63-79: the attributes, the embedding table (its width is the
\* multiplicity of the first component of irreps_in; indexing an empty
\* irreps_in raises IndexError), and the loop's initial irreps
Setup ==
    /\ pc = "start"
    /\ IF Len(irreps_in) = 0
       THEN /\ pc' = "raised"
            /\ error' = "IndexError"
            /\ UNCHANGED <<node_embedding, irreps>>
       ELSE /\ pc' = "loop"
            /\ node_embedding' = irreps_in[1][1]
            /\ irreps' = irreps_in
            /\ UNCHANGED error
    /\ UNCHANGED <<interactions, out, cvars, fvars, tvars>>

\* lines 80-110: one iteration of the loop over range(num_convs-1)
Iterate ==
    /\ pc = "loop"
    /\ Len(interactions) < num_convs - 1
    /\ LET scalars == irreps_scalars(irreps, irreps_hidden, irreps_edge)
           gated   == irreps_gated(irreps, irreps_hidden, irreps_edge)
           ir      == gate_ir(irreps_node, irreps_edge, gated)
       IN  IF ir = "ValueError"
           THEN /\ pc' = "raised"
                /\ error' = "ValueError"
                /\ UNCHANGED <<irreps, interactions>>
           ELSE LET gates == IF ir = "None" THEN <<>> ELSE irreps_gates(gated, ir)
                    gate  == Gate(scalars, gates, gated)
                    conv  == E3NN_Interaction(irreps, irreps_node, irreps_edge,
                                              gate.irreps_in)
                IN  /\ irreps' = next_irreps(gate)
                    /\ interactions' = Append(interactions, Compose(conv, gate))
                    /\ UNCHANGED <<pc, error>>
    /\ UNCHANGED <<node_embedding, out, cvars, fvars, tvars>>

\* lines 112-119: the final output-only interaction
BuildOut ==
    /\ pc = "loop"
    /\ Len(interactions) >= num_convs - 1
    /\ out' = E3NN_Interaction(irreps, irreps_node, irreps_edge, irreps_out)
    /\ pc' = "done"
    /\ UNCHANGED <<error, node_embedding, irreps, interactions, cvars, fvars, tvars>>

---------------------------------------------------------------------------
(* E3NN_NequIP.forward *)

\* lines 122-137: z is bound only when the data record has no 'z';
\* h_atm is the embedding of x (tracked by its width)
ForwardBegin ==
    /\ pc = "done"
    /\ fpc = "idle"
    /\ \E has_z \in BOOLEAN :
        /\ data_has_z' = has_z
        /\ z' = IF ~has_z THEN "ones" ELSE "unbound"
    /\ h_atm' = node_embedding
    /\ fpc' = "layers"
    /\ UNCHANGED <<ferror, z_passed, cvars, bvars, tvars>>

\* lines 139-140: the next composed layer; reading the unbound local z
\* raises UnboundLocalError
ForwardLayer ==
    /\ fpc = "layers"
    /\ Len(z_passed) < Len(interactions)
    /\ IF z = "unbound"
       THEN /\ fpc' = "raised"
            /\ ferror' = "UnboundLocalError"
            /\ UNCHANGED <<h_atm, z_passed>>
       ELSE /\ h_atm' = Dim(interactions[Len(z_passed) + 1].irreps_out)
            /\ z_passed' = Append(z_passed, z)
            /\ UNCHANGED <<fpc, ferror>>
    /\ UNCHANGED <<data_has_z, z, cvars, bvars, tvars>>

\* line 142: the output layer
ForwardOut ==
    /\ fpc = "layers"
    /\ Len(z_passed) = Len(interactions)
    /\ IF z = "unbound"
       THEN /\ fpc' = "raised"
            /\ ferror' = "UnboundLocalError"
            /\ UNCHANGED <<h_atm, z_passed>>
       ELSE /\ h_atm' = Dim(out.irreps_out)
            /\ z_passed' = Append(z_passed, z)
            /\ fpc' = "returned"
            /\ UNCHANGED ferror
    /\ UNCHANGED <<data_has_z, z, cvars, bvars, tvars>>

---------------------------------------------------------------------------
(* tp_path_exists applied to arguments of its own *)

CallPath ==
    /\ tp_pc \in {"ready", "swapped"}
    /\ tp_res' = tp_path_exists(tp_in1, tp_in2, tp_ir)
    /\ tp_pc' = IF tp_pc = "ready" THEN "direct" ELSE "both"
    /\ UNCHANGED <<tp_in1, tp_in2, tp_ir, tp_res_swapped, cvars, bvars, fvars>>

CallPathSwapped ==
    /\ tp_pc \in {"ready", "direct"}
    /\ tp_res_swapped' = tp_path_exists(tp_in2, tp_in1, tp_ir)
    /\ tp_pc' = IF tp_pc = "ready" THEN "swapped" ELSE "both"
    /\ UNCHANGED <<tp_in1, tp_in2, tp_ir, tp_res, cvars, bvars, fvars>>

---------------------------------------------------------------------------
(* Input sets *)

Labels == (0..MaxL) \X Parities

Entries(muls) == {<<m, ir[1], ir[2]>> : m \in muls, ir \in Labels}

SeqsUpTo(S, n) == UNION {[1..k -> S] : k \in 0..n}

\* label order: by degree, even before odd
Before(e, f) == e[2] < f[2] \/ (e[2] = f[2] /\ e[3] > f[3])

Increasing(s) == \A i, j \in DOMAIN s : i < j => Before(s[i], s[j])

\* the constructor's arguments: irreps_in of at most one component,
\* irreps_hidden of at most two components in label order, irreps_node of one
\* component, irreps_edge of one or two components in label order
InArgs == SeqsUpTo(Entries({1}), 1)
HiddenArgs == {s \in SeqsUpTo(Entries({1, MaxMul}), 2) : Increasing(s)}
NodeArgs == [1..1 -> Entries({1})]
EdgeArgs == {s \in SeqsUpTo(Entries({1}), 2) : s # <<>> /\ Increasing(s)}

\* arguments of tp_path_exists: any sequences, with repeated labels and
\* multiplicities, against short ones; targets up to the largest degree
\* a product can have
PathArgs1 == SeqsUpTo(Entries({1, MaxMul}), MaxLen)
PathArgs2 == SeqsUpTo(Entries({1, MaxMul}), 1) \cup {<<e, e>> : e \in Entries({1})}
PathTargets == (0..(2 * MaxL)) \X Parities

BuildIdle ==
    /\ pc = "start"
    /\ error = "none"
    /\ node_embedding = 0
    /\ irreps = <<>>
    /\ interactions = <<>>
    /\ out = NoModule

ForwardIdle ==
    /\ fpc = "idle"
    /\ ferror = "none"
    /\ data_has_z = FALSE
    /\ z = "unbound"
    /\ h_atm = 0
    /\ z_passed = <<>>

PathIdle ==
    /\ tp_pc = "off"
    /\ tp_in1 = <<>>
    /\ tp_in2 = <<>>
    /\ tp_ir = <<0, 1>>
    /\ tp_res = FALSE
    /\ tp_res_swapped = FALSE

\* the constructor's arguments
Init ==
    /\ irreps_in \in InArgs
    /\ irreps_hidden \in HiddenArgs
    /\ irreps_out = <<<<1, 0, 1>>>>
    /\ irreps_node \in NodeArgs
    /\ irreps_edge \in EdgeArgs
    /\ num_convs \in 1..MaxConvs
    /\ BuildIdle
    /\ ForwardIdle
    /\ PathIdle

Next ==
    \/ Setup
    \/ Iterate
    \/ BuildOut

\* construction of the model
Spec == Init /\ [][Next]_vars

InitForward ==
    /\ irreps_in \in SeqsUpTo(Entries({1, MaxMul}), 2)
    /\ irreps_hidden \in HiddenArgs
    /\ irreps_out = <<<<1, 0, 1>>>>
    /\ irreps_node = <<<<1, 0, 1>>>>
    /\ irreps_edge \in {<<<<1, 0, 1>>>>, <<<<1, 0, 1>>, <<1, 1, -1>>>>}
    /\ num_convs \in 1..MaxConvs
    /\ BuildIdle
    /\ ForwardIdle
    /\ PathIdle

NextForward ==
    \/ Setup
    \/ Iterate
    \/ BuildOut
    \/ ForwardBegin
    \/ ForwardLayer
    \/ ForwardOut

\* construction followed by one forward pass
SpecForward == InitForward /\ [][NextForward]_vars

InitPath ==
    /\ tp_pc = "ready"
    /\ tp_in1 \in PathArgs1
    /\ tp_in2 \in PathArgs2
    /\ tp_ir \in PathTargets
    /\ tp_res = FALSE
    /\ tp_res_swapped = FALSE
    /\ irreps_in = <<<<1, 0, 1>>>>
    /\ irreps_hidden = <<<<1, 0, 1>>>>
    /\ irreps_out = <<<<1, 0, 1>>>>
    /\ irreps_node = <<<<1, 0, 1>>>>
    /\ irreps_edge = <<<<1, 0, 1>>>>
    /\ num_convs = 1
    /\ BuildIdle
    /\ ForwardIdle

NextPath ==
    \/ CallPath
    \/ CallPathSwapped

\* tp_path_exists on its own
SpecPath == InitPath /\ [][NextPath]_vars

---------------------------------------------------------------------------
(* Properties *)

\* the coupling rule stated on the components themselves: some label of a
\* and some label of b couple to t
HasPath(a, b, t) ==
    \E i \in DOMAIN a : \E j \in DOMAIN b :
        /\ Abs(a[i][2] - b[j][2]) <= t[1]
        /\ t[1] <= a[i][2] + b[j][2]
        /\ t[2] = a[i][3] * b[j][3]

RECURSIVE SumMul(_)
SumMul(s) == IF s = <<>> THEN 0 ELSE s[1][1] + SumMul(Tail(s))

Even0 == <<0, 1>>
Odd0 == <<0, -1>>

\* neither 0e nor 0o is reachable from irreps_node x irreps_edge
NoDegree0 ==
    /\ ~HasPath(irreps_node, irreps_edge, Even0)
    /\ ~HasPath(irreps_node, irreps_edge, Odd0)

\* some degree>0 component of irreps_hidden has a path from cur x irreps_edge
GatedRequested(cur) ==
    \E n \in DOMAIN irreps_hidden :
        /\ irreps_hidden[n][2] > 0
        /\ HasPath(cur, irreps_edge, <<irreps_hidden[n][2], irreps_hidden[n][3]>>)

\* C1: layer-shape chaining. The first interaction built (the first layer's,
\* or self.out when the loop builds none) receives irreps_in; every later
\* layer's interaction receives the irreps_out of the gate built just before
\* it; self.out receives the irreps_out of the last gate; a completed
\* construction holds num_convs-1 layers.
ChainingC1 ==
    /\ Len(interactions) >= 1 => interactions[1].first.irreps_in = irreps_in
    /\ \A k \in 1..(Len(interactions) - 1) :
            interactions[k + 1].first.irreps_in = interactions[k].second.irreps_out
    /\ pc = "done" =>
            /\ Len(interactions) = num_convs - 1
            /\ out.irreps_in = IF interactions = <<>> THEN irreps_in
                               ELSE interactions[Len(interactions)].second.irreps_out

\* a completed three-layer chain whose representation changes at each gate
WitnessC1 ==
    /\ pc = "done"
    /\ Len(interactions) = 2
    /\ interactions[1].second.irreps_out # irreps_in
    /\ interactions[2].second.irreps_out # interactions[1].second.irreps_out
    /\ interactions[2].second.irreps_out # <<>>

\* C2: in a completed construction every component of every interaction's
\* declared output representation (gate.irreps_in: scalars, gates, gated) has
\* a path from (that layer's input representation) x irreps_edge.
DeclaredOutputsHavePathsC2 ==
    pc = "done" =>
        \A k \in DOMAIN interactions :
            LET conv == interactions[k].first
            IN  \A n \in DOMAIN conv.irreps_out :
                    HasPath(conv.irreps_in, irreps_edge,
                            <<conv.irreps_out[n][2], conv.irreps_out[n][3]>>)

\* C3 as stated: when no degree-0 label is reachable from irreps_node x
\* irreps_edge and irreps_hidden has a component of degree > 0, construction
\* never completes.
NeverCompletesC3 ==
    (NoDegree0 /\ \E n \in DOMAIN irreps_hidden : irreps_hidden[n][2] > 0)
        => pc # "done"

\* C3 amended: when no degree-0 label is reachable from irreps_node x
\* irreps_edge, no layer whose gated partition is non-empty (some degree>0
\* component of irreps_hidden with a path from the layer's input x irreps_edge)
\* is ever built, so such a construction does not complete; and ValueError is
\* the error raised exactly in that situation, at the layer where it arises.
GatedUnreachableFailsC3 ==
    /\ NoDegree0 =>
            \A k \in DOMAIN interactions :
                ~GatedRequested(interactions[k].first.irreps_in)
    /\ (NoDegree0 /\ pc = "done") =>
            ~(num_convs > 1 /\ GatedRequested(irreps_in))
    /\ error = "ValueError" =>
            /\ pc = "raised"
            /\ NoDegree0
            /\ GatedRequested(irreps)

\* the ValueError raised at the second layer, after a first layer without
\* gated components
WitnessC3 ==
    /\ pc = "raised"
    /\ error = "ValueError"
    /\ NoDegree0
    /\ Len(interactions) = 1
    /\ GatedRequested(irreps)

\* C4: tp_path_exists(A, B, t) is true exactly when some label of A and some
\* label of B couple to t, whatever the multiplicities and repetitions; it is
\* false when A or B is empty; for A = B = 1x0e it is true for 0e and false
\* for 1e.
PathExistsC4 ==
    /\ tp_pc \in {"direct", "both"} =>
            /\ tp_res = HasPath(tp_in1, tp_in2, tp_ir)
            /\ (tp_in1 = <<>> \/ tp_in2 = <<>>) => ~tp_res
            /\ (tp_in1 = <<<<1, 0, 1>>>> /\ tp_in2 = <<<<1, 0, 1>>>>) =>
                    /\ tp_ir = <<0, 1>> => tp_res
                    /\ tp_ir = <<1, 1>> => ~tp_res
    /\ tp_pc \in {"swapped", "both"} =>
            /\ tp_res_swapped = HasPath(tp_in2, tp_in1, tp_ir)
            /\ (tp_in1 = <<>> \/ tp_in2 = <<>>) => ~tp_res_swapped

\* a path found through the second, repeated label of A, of multiplicity 2
WitnessC4 ==
    /\ tp_pc = "both"
    /\ tp_res
    /\ Len(tp_in1) = 2
    /\ tp_in1[1] = tp_in1[2]
    /\ tp_in1[1][1] = 2
    /\ tp_in1[1][2] = 1
    /\ tp_in2 # <<>>
    /\ tp_in2[1][2] = 1
    /\ tp_ir[1] = 2

\* C5: tp_path_exists(A, B, t) = tp_path_exists(B, A, t).
SymmetryC5 ==
    tp_pc = "both" => tp_res = tp_res_swapped

\* both orders find a path between arguments of different degrees
WitnessC5 ==
    /\ tp_pc = "both"
    /\ tp_res
    /\ tp_res_swapped
    /\ Len(tp_in1) = 2
    /\ Len(tp_in2) = 1
    /\ tp_in1[1][2] = 0
    /\ tp_in1[2][2] = 0
    /\ tp_in2[1][2] = 1

\* C6: a forward pass on a data record that carries 'z' does not fail for
\* want of a node-attribute value.
ForwardWithZCompletesC6 ==
    data_has_z => (fpc # "raised" /\ ferror = "none")

\* C7: the embedding's width is the total dimension of irreps_in.
EmbeddingWidthC7 ==
    pc \in {"loop", "done"} => node_embedding = Dim(irreps_in)

PartitionC10 ==
    /\ \A k \in DOMAIN interactions :
            LET cur  == interactions[k].first.irreps_in
                gate == interactions[k].second
            IN  /\ gate.irreps_scalars =
                        SelectSeq(irreps_hidden, LAMBDA e :
                            e[2] = 0 /\ HasPath(cur, irreps_edge, <<e[2], e[3]>>))
                /\ gate.irreps_gated =
                        SelectSeq(irreps_hidden, LAMBDA e :
                            e[2] > 0 /\ HasPath(cur, irreps_edge, <<e[2], e[3]>>))
    /\ (pc = "raised" /\ Len(irreps_in) > 0) =>
            /\ error = "ValueError"
            /\ GatedRequested(irreps)

\* a completed construction with a layer that realises none of the two
\* requested hidden components
WitnessC10 ==
    /\ pc = "done"
    /\ Len(irreps_hidden) = 2
    /\ \E k \in DOMAIN interactions :
            /\ interactions[k].second.irreps_scalars = <<>>
            /\ interactions[k].second.irreps_gated = <<>>

===========================================================================
